---- MODULE Spec2Model ----
(***************************************************************************)
(* Model of backend/simulation.py (FireSimulation) and backend/main.py     *)
(* (the /api/simulate endpoint) of the wildfire digital twin.              *)
(*                                                                         *)
(* Numbers.  The program computes in IEEE doubles; the model computes in   *)
(* exact integers:                                                         *)
(*   - coordinates are integers in units of 1/PosScale degree;             *)
(*   - unit vectors are integer pairs in units of 1/Scale;                 *)
(*   - spread distances are exact rationals, kept as numerators over       *)
(*     DistDen, so base_spread, the wind gain and the 0.1 clamp are exact  *)
(*     for integer wind speeds and humidities;                             *)
(*   - np.linalg.norm is the integer square root rounded to nearest, and   *)
(*     a float division is an integer division rounded to nearest.         *)
(* Against the float computation the rings agree to within 3 coordinate    *)
(* units wherever the normalisations are well conditioned; where an edge   *)
(* is shorter than 0.02 degree or two unit vectors nearly cancel, the      *)
(* direction of a vertex is decided by rounding, in the program as in the  *)
(* model, and the two may differ by up to twice the spread distance.       *)
(***************************************************************************)
EXTENDS Integers, Sequences, FiniteSets, TLC

VARIABLES
    config,           \* SimulationConfig built by the endpoint from the request
    pc,               \* position of the request inside the endpoint / run_simulation
    hrrr_data,        \* FireSimulation.hrrr_data
    hysplit_data,     \* FireSimulation.hysplit_data
    fire_spread,      \* run_simulation's local fire_spread (calculate_fire_spread's result)
    simulation_data,  \* run_simulation's local simulation_data
    exc,              \* the exception in flight, "" when none
    responses,        \* what the endpoint has sent back to the caller
    stages,           \* history: the stages of run_simulation entered so far, in order
    probe             \* inputs and outputs of the spread-rate formula (SpecRate only)

vars == <<config, pc, hrrr_data, hysplit_data, fire_spread, simulation_data,
          exc, responses, stages, probe>>

----------------------------------------------------------------------------
(* Bounds of the model *)

\* most forecast periods the weather service returns in one response
MaxPeriods == 3

\* largest wind speed the spread-rate probe draws
MaxProbeSpeed == 6

----------------------------------------------------------------------------
(* Fixed-point units *)

Scale == 10 * 100          \* unit vectors: 1.0 is Scale
PosScale == 100 * 100      \* coordinates: one degree is PosScale

----------------------------------------------------------------------------
(* Integer helpers standing for float arithmetic *)

Min(a, b) == IF a <= b THEN a ELSE b

\* a / b rounded to nearest, halves away from zero (b > 0); odd in a, as float division is
RoundDiv(a, b) == IF a >= 0 THEN (2 * a + b) \div (2 * b) ELSE -((2 * (-a) + b) \div (2 * b))

RECURSIVE Newton(_, _)
Newton(n, x) == LET y == (x + n \div x) \div 2 IN IF y >= x THEN x ELSE Newton(n, y)

ISqrt(n) == IF n < 2 THEN n ELSE Newton(n, n)

\* np.linalg.norm of a 2-vector: sqrt(x^2 + y^2), rounded to nearest
Norm(v) ==
    LET n == v[1] * v[1] + v[2] * v[2]
        r == ISqrt(n)
    IN  IF n - r * r > r THEN r + 1 ELSE r

\* v / length as a unit vector in units of 1/Scale
Normalize(v, length) == <<RoundDiv(v[1] * Scale, length), RoundDiv(v[2] * Scale, length)>>

----------------------------------------------------------------------------
(* Program constants of the spread-rate formula (simulation.py:152, 206) *)

BaseRateDen == 500       \* 0.002 is 1 / 500
WindSpeedRef == 5        \* 1 + wind_speed / 5
HumidityRef == 30        \* 1 + (30 - humidity) / 50
HumiditySpan == 50
WindGainDen == 5         \* 1 + wind_speed * 0.2 is (5 + wind_speed) / 5
MaxSpreadDen == 10       \* the clamp 0.1 is 1 / 10
Epsilon == 0             \* 1e-10, below the resolution of every fixed-point unit

\* spread distances are numerators over DistDen
DistDen == BaseRateDen * WindSpeedRef * HumiditySpan * WindGainDen

\* one DistDen-th of a degree times one Scale-th, in coordinate units
DispDen == (Scale * DistDen) \div PosScale

----------------------------------------------------------------------------
(* fetch_hrrr_data: the forecast and its parsing *)

\* direction_map, for the eight principal winds and the empty string
DirectionMap(name) ==
    CASE name = "" -> 0
      [] name = "N" -> 0
      [] name = "NE" -> 45
      [] name = "E" -> 90
      [] name = "SE" -> 135
      [] name = "S" -> 180
      [] name = "SW" -> 225
      [] name = "W" -> 270
      [] name = "NW" -> 315

\* what the weather service may report for one period
ForecastSpeeds == {10, 55}
ForecastDirections == {"E", "SW"}
ForecastHumidities == {30, 100}
ForecastPeriod ==
    [windSpeed : ForecastSpeeds, windDirection : ForecastDirections,
     relativeHumidity : ForecastHumidities]

\* one period of forecast_data as the entries of self.hrrr_data at index k
\* (startTime is the period's index: the service's periods are consecutive hours)
ParsePeriod(k, period) ==
    [time |-> k,
     wind_speed |-> period.windSpeed,
     wind_direction |-> DirectionMap(period.windDirection),
     humidity |-> period.relativeHumidity]

NoHrrrData == [fetched |-> FALSE, periods |-> <<>>]

\* the exceptions requests.get, raise_for_status and the parsing may raise
FetchErrors == {"ConnectionError", "HTTPError", "KeyError"}

----------------------------------------------------------------------------
(* calculate_fire_spread: the vertex advance rule *)

\* (np.cos(t), np.sin(t)) for t = np.radians(deg), in units of 1/Scale
CosSin(deg) ==
    CASE deg = 0 -> <<1000, 0>>
      [] deg = 45 -> <<707, 707>>
      [] deg = 90 -> <<0, 1000>>
      [] deg = 135 -> <<-707, 707>>
      [] deg = 180 -> <<-1000, 0>>
      [] deg = 225 -> <<-707, -707>>
      [] deg = 270 -> <<0, -1000>>
      [] deg = 315 -> <<707, -707>>

\* wind_vector = [cos(wind_dir), sin(wind_dir)]: the bearing is used as a plane angle
WindVector(wind_direction) == CosSin(wind_direction)

\* base_spread with the sign of the wind term slipped: 1 - wind_speed / 5
BaseSpreadWindInverted(wind_speed, humidity) ==
    (WindSpeedRef - wind_speed) * (HumiditySpan + HumidityRef - humidity)

\* base_spread, as a numerator over BaseRateDen * WindSpeedRef * HumiditySpan
BaseSpread(wind_speed, humidity) ==
    (WindSpeedRef + wind_speed) * (HumiditySpan + HumidityRef - humidity)

\* base_spread * (1 + wind_speed * 0.2), as a numerator over DistDen
PreClampSpread(wind_speed, humidity) ==
    BaseSpread(wind_speed, humidity) * (WindGainDen + wind_speed)

\* the clamp 0.1 as a numerator over DistDen
MaxSpread == DistDen \div MaxSpreadDen

\* spread_distance = min(base_spread * (1 + wind_speed * 0.2), 0.1)
SpreadDistance(wind_speed, humidity) == Min(PreClampSpread(wind_speed, humidity), MaxSpread)

\* "safely normalize": the zero vector unless the length exceeds 1e-10
SafeUnit(v) == LET length == Norm(v) IN IF length > Epsilon THEN Normalize(v, length) ELSE <<0, 0>>

\* the normal, falling back to the perpendicular of the wind vector instead of the wind vector
NormalPerpendicularFallback(v1_norm, v2_norm, wind_vector) ==
    LET normal == <<-v1_norm[2] - v2_norm[2], v1_norm[1] + v2_norm[1]>>
        normal_length == Norm(normal)
    IN  IF normal_length > Epsilon
        THEN Normalize(normal, normal_length)
        ELSE <<-wind_vector[2], wind_vector[1]>>

\* the normal at a vertex from its two unit edge vectors, or the wind vector
Normal(v1_norm, v2_norm, wind_vector) ==
    LET normal == <<-v1_norm[2] - v2_norm[2], v1_norm[1] + v2_norm[1]>>
        normal_length == Norm(normal)
    IN  IF normal_length > Epsilon THEN Normalize(normal, normal_length) ELSE wind_vector

\* spread_dir = normalize(normal * 0.5 + wind_vector * 0.5), or the wind vector.
\* The blend is kept doubled (units of 1/(2*Scale)), so the halves are exact.
SpreadDir(normal, wind_vector) ==
    LET blend2 == <<normal[1] + wind_vector[1], normal[2] + wind_vector[2]>>
        length2 == Norm(blend2)
    IN  IF length2 > 2 * Epsilon THEN Normalize(blend2, length2) ELSE wind_vector

\* point + spread_dir * spread_distance, in coordinate units
Displace(point, spread_dir, spread_distance) ==
    <<point[1] + RoundDiv(spread_dir[1] * spread_distance, DispDen),
      point[2] + RoundDiv(spread_dir[2] * spread_distance, DispDen)>>

\* the body of the loop over prev_coords, for the vertex at (1-based) index j
AdvanceVertex(prev_coords, j, sample) ==
    LET n == Len(prev_coords)
        point == prev_coords[j]
        next_point == prev_coords[(j % n) + 1]
        prev_point == prev_coords[((j - 2) % n) + 1]
        v1 == <<next_point[1] - point[1], next_point[2] - point[2]>>
        v2 == <<point[1] - prev_point[1], point[2] - prev_point[2]>>
        wind_vector == WindVector(sample.wind_direction)
        normal == Normal(SafeUnit(v1), SafeUnit(v2), wind_vector)
        spread_dir == SpreadDir(normal, wind_vector)
    IN  Displace(point, spread_dir, SpreadDistance(sample.wind_speed, sample.humidity))

----------------------------------------------------------------------------
(* calculate_fire_spread: the propagator *)

\* Python truth of config.initial_polygon: neither None nor an empty list
Truthy(polygon) == polygon.given /\ Len(polygon.coords) > 0

\* initial_coords: the polygon, or the start location as a single point
InitialCoords(cfg) ==
    IF Truthy(cfg.initial_polygon) THEN cfg.initial_polygon.coords ELSE <<cfg.start_location>>

\* the advanced perimeter left open
ClosePolygonOpen(perimeter) == perimeter

\* perimeter.append(perimeter[0])
ClosePolygon(perimeter) == Append(perimeter, perimeter[1])

\* prev_coords taken as the whole previous ring, closing entry included
PrevCoordsWholeRing(cfg, spread_data, i) ==
    IF i > 1 THEN spread_data[i - 1].coordinates ELSE InitialCoords(cfg)

\* prev_coords: the previous ring without its last entry, or initial_coords at the first step
PrevCoords(cfg, spread_data, i) ==
    IF i > 1
    THEN LET ring == spread_data[i - 1].coordinates IN SubSeq(ring, 1, Len(ring) - 1)
    ELSE InitialCoords(cfg)

\* whether timestep i (1-based) passes the initial polygon through
PassThrough(cfg, i) == i = 1 /\ Truthy(cfg.initial_polygon)

\* the perimeter of timestep i (1-based), given the frames before it
Perimeter(cfg, spread_data, i, sample) ==
    IF PassThrough(cfg, i)
    THEN InitialCoords(cfg) \o <<InitialCoords(cfg)[1]>>
    ELSE LET prev_coords == PrevCoords(cfg, spread_data, i)
         IN  ClosePolygon([j \in 1..Len(prev_coords) |-> AdvanceVertex(prev_coords, j, sample)])

\* spread_data after the first i iterations of the loop over hrrr_data['times']
RECURSIVE SpreadData(_, _, _)
SpreadData(cfg, periods, i) ==
    IF i = 0
    THEN <<>>
    ELSE LET before == SpreadData(cfg, periods, i - 1)
         IN  Append(before, [timestamp |-> periods[i].time,
                             coordinates |-> Perimeter(cfg, before, i, periods[i])])

\* calculate_fire_spread: [] when there is no weather, else one frame per period
CalculateFireSpreadResult(cfg, hrrr) ==
    IF ~hrrr.fetched THEN <<>> ELSE SpreadData(cfg, hrrr.periods, Len(hrrr.periods))

----------------------------------------------------------------------------
(* The request: what the endpoint copies into SimulationConfig *)

Square == <<<<0, 0>>, <<0, PosScale>>, <<PosScale, PosScale>>, <<PosScale, 0>>>>

\* initial_polygon: None, [], an open ring, the same ring sent closed, a ring with a repeated vertex
InitialPolygons ==
    { [given |-> FALSE, coords |-> <<>>],
      [given |-> TRUE, coords |-> <<>>],
      [given |-> TRUE, coords |-> Square],
      [given |-> TRUE, coords |-> Square \o <<Square[1]>>],
      [given |-> TRUE, coords |-> <<<<0, 0>>, <<0, 0>>, <<PosScale, 0>>>>] }

StartLocations == {<<0, 0>>}

\* (duration_hours, time_step_minutes): the defaults, and one hour in half-hour steps
Durations == {<<24, 30>>, <<1, 30>>}

Configs ==
    { [start_location |-> loc, duration_hours |-> d[1], time_step_minutes |-> d[2],
       initial_polygon |-> poly] :
        loc \in StartLocations, d \in Durations, poly \in InitialPolygons }

NoProbe == [applied |-> FALSE, s1 |-> 0, s2 |-> 0, humidity |-> 0, d1 |-> 0, d2 |-> 0]

----------------------------------------------------------------------------
(* run_simulation and the endpoint *)

\* the stages with the propagator run before the smoke-plume collaborator
StageAfterPropagationFirst(stage) ==
    CASE stage = "fetch_hrrr_data" -> "calculate_fire_spread"
      [] stage = "calculate_fire_spread" -> "run_hysplit"
      [] stage = "run_hysplit" -> "zip"
      [] stage = "zip" -> "respond"

\* the order of the stages in run_simulation's body
StageAfter(stage) ==
    CASE stage = "fetch_hrrr_data" -> "run_hysplit"
      [] stage = "run_hysplit" -> "calculate_fire_spread"
      [] stage = "calculate_fire_spread" -> "zip"
      [] stage = "zip" -> "respond"

\* one record of simulation_data
Record(hrrr, spread, hysplit, i) ==
    [timestamp |-> hrrr.periods[i].time,
     firePerimeter |-> spread[i].coordinates,
     smokePlume |-> hysplit[i].coordinates]

\* SimulationResponse(simulation_data=..., message=...)
OkResponse(data) ==
    [kind |-> "ok", status_code |-> 200, simulation_data |-> data,
     message |-> "Simulation completed successfully"]

\* a failure answered as an empty success
ErrorResponseAsSuccess(e) == OkResponse(<<>>)

\* HTTPException(status_code=500, detail=str(e))
ErrorResponse(e) == [kind |-> "error", status_code |-> 500, detail |-> e]

Init ==
    /\ config \in Configs
    /\ pc = "fetch_hrrr_data"
    /\ hrrr_data = NoHrrrData
    /\ hysplit_data = <<>>
    /\ fire_spread = <<>>
    /\ simulation_data = <<>>
    /\ exc = ""
    /\ responses = <<>>
    /\ stages = <<>>
    /\ probe = NoProbe

\* await self.fetch_hrrr_data(), the service answering with n periods
FetchHrrrData ==
    /\ pc = "fetch_hrrr_data"
    /\ \E n \in 0..MaxPeriods :
        \E periods \in [1..n -> ForecastPeriod] :
            hrrr_data' = [fetched |-> TRUE,
                          periods |-> [k \in 1..n |-> ParsePeriod(k, periods[k])]]
    /\ stages' = Append(stages, "fetch_hrrr_data")
    /\ pc' = StageAfter("fetch_hrrr_data")
    /\ UNCHANGED <<config, hysplit_data, fire_spread, simulation_data, exc, responses, probe>>

\* await self.fetch_hrrr_data() raising before self.hrrr_data is assigned
FetchHrrrDataRaises ==
    /\ pc = "fetch_hrrr_data"
    /\ \E e \in FetchErrors : exc' = e
    /\ stages' = Append(stages, "fetch_hrrr_data")
    /\ pc' = "except"
    /\ UNCHANGED <<config, hrrr_data, hysplit_data, fire_spread, simulation_data, responses, probe>>

\* await self.run_hysplit(): the filler data, one entry per period
RunHysplit ==
    /\ pc = "run_hysplit"
    /\ hysplit_data' = [k \in 1..Len(hrrr_data.periods) |-> [coordinates |-> config.initial_polygon]]
    /\ stages' = Append(stages, "run_hysplit")
    /\ pc' = StageAfter("run_hysplit")
    /\ UNCHANGED <<config, hrrr_data, fire_spread, simulation_data, exc, responses, probe>>

\* await self.run_hysplit() with the HYSPLITData constructor raising
RunHysplitRaises ==
    /\ pc = "run_hysplit"
    /\ exc' = "HysplitError"
    /\ stages' = Append(stages, "run_hysplit")
    /\ pc' = "except"
    /\ UNCHANGED <<config, hrrr_data, hysplit_data, fire_spread, simulation_data, responses, probe>>

\* fire_spread = self.calculate_fire_spread()
CalculateFireSpread ==
    /\ pc = "calculate_fire_spread"
    /\ fire_spread' = CalculateFireSpreadResult(config, hrrr_data)
    /\ stages' = Append(stages, "calculate_fire_spread")
    /\ pc' = StageAfter("calculate_fire_spread")
    /\ UNCHANGED <<config, hrrr_data, hysplit_data, simulation_data, exc, responses, probe>>

\* the loop building simulation_data, one record per period
ZipRecords ==
    /\ pc = "zip"
    /\ simulation_data' =
         [i \in 1..Len(hrrr_data.periods) |-> Record(hrrr_data, fire_spread, hysplit_data, i)]
    /\ stages' = Append(stages, "zip")
    /\ pc' = StageAfter("zip")
    /\ UNCHANGED <<config, hrrr_data, hysplit_data, fire_spread, exc, responses, probe>>

\* the endpoint returning SimulationResponse
Respond ==
    /\ pc = "respond"
    /\ responses' = Append(responses, OkResponse(simulation_data))
    /\ pc' = "done"
    /\ UNCHANGED <<config, hrrr_data, hysplit_data, fire_spread, simulation_data, exc, stages, probe>>

\* the endpoint's except clause
ExceptHandler ==
    /\ pc = "except"
    /\ responses' = Append(responses, ErrorResponse(exc))
    /\ pc' = "done"
    /\ UNCHANGED <<config, hrrr_data, hysplit_data, fire_spread, simulation_data, exc, stages, probe>>

Next ==
    \/ FetchHrrrData
    \/ FetchHrrrDataRaises
    \/ RunHysplit
    \/ RunHysplitRaises
    \/ CalculateFireSpread
    \/ ZipRecords
    \/ Respond
    \/ ExceptHandler

Spec == Init /\ [][Next]_vars

----------------------------------------------------------------------------
(* The spread-rate formula on its own: two wind speeds at one humidity *)

MaxHumidity == 100

InitRate ==
    /\ config \in {c \in Configs : ~c.initial_polygon.given /\ c.duration_hours = 1}
    /\ pc = "rate"
    /\ hrrr_data = NoHrrrData
    /\ hysplit_data = <<>>
    /\ fire_spread = <<>>
    /\ simulation_data = <<>>
    /\ exc = ""
    /\ responses = <<>>
    /\ stages = <<>>
    /\ \E s1 \in 0..MaxProbeSpeed, s2 \in 0..MaxProbeSpeed, h \in 0..MaxHumidity :
        /\ s1 < s2
        /\ probe = [applied |-> FALSE, s1 |-> s1, s2 |-> s2, humidity |-> h, d1 |-> 0, d2 |-> 0]

\* evaluate base_spread * (1 + wind_speed * 0.2) at both wind speeds
ApplyRate ==
    /\ pc = "rate"
    /\ ~probe.applied
    /\ probe' = [probe EXCEPT !.applied = TRUE,
                              !.d1 = PreClampSpread(probe.s1, probe.humidity),
                              !.d2 = PreClampSpread(probe.s2, probe.humidity)]
    /\ UNCHANGED <<config, pc, hrrr_data, hysplit_data, fire_spread, simulation_data,
                   exc, responses, stages>>

NextRate == ApplyRate

SpecRate == InitRate /\ [][NextRate]_vars

----------------------------------------------------------------------------
(* Vocabulary of the properties *)

\* the ring of frame i of fire_spread
Ring(i) == fire_spread[i].coordinates

\* the frames of fire_spread that the advance rule produced
AdvancedSteps == {i \in 1..Len(fire_spread) : ~PassThrough(config, i)}

\* the vertices frame i was advanced from
AdvancedFrom(i) == PrevCoords(config, fire_spread, i)

\* the number of different points among the entries of a sequence of points
DistinctPoints(points) == Cardinality({points[k] : k \in 1..Len(points)})

\* the entries of a ring before its closing entry
Open(ring) == SubSeq(ring, 1, Len(ring) - 1)

StagesEntered == {stages[k] : k \in 1..Len(stages)}

----------------------------------------------------------------------------
(* Properties *)

\* 0.1 degree in coordinate units, plus the rounding of the two coordinates
MaxStep == PosScale \div MaxSpreadDen + 2

\* C1. Distance bound: every advanced vertex lies within 0.1 of the vertex it was
\* advanced from, for every weather sample with wind speed >= 0 and humidity in [0,100].
DistanceBound ==
    \A i \in AdvancedSteps :
        \A j \in 1..Len(AdvancedFrom(i)) :
            LET dx == Ring(i)[j][1] - AdvancedFrom(i)[j][1]
                dy == Ring(i)[j][2] - AdvancedFrom(i)[j][2]
            IN  dx * dx + dy * dy <= MaxStep * MaxStep

\* C2. Closure: every emitted ring, at every step, for every initial polygon (supplied,
\* empty or absent), ends with a copy of its first vertex.
Closure ==
    \A i \in 1..Len(fire_spread) :
        /\ Len(Ring(i)) >= 2
        /\ Ring(i)[1] = Ring(i)[Len(Ring(i))]

\* a ring advanced from a supplied polygon, and one advanced from an advanced ring
ClosureWitness ==
    /\ Truthy(config.initial_polygon)
    /\ Len(fire_spread) >= 3
    /\ Ring(3)[1] = Ring(3)[Len(Ring(3))]
    /\ Ring(3)[1] # Ring(2)[1]

\* C3 as stated. Vertex-count preservation: for every step after the first, the number
\* of distinct vertices of the ring (closing duplicate excluded) is that of the ring
\* before, also for a polygon supplied closed or with duplicate vertices.
DistinctVertexCountPreserved ==
    \A i \in 2..Len(fire_spread) :
        DistinctPoints(Open(Ring(i))) = DistinctPoints(Open(Ring(i - 1)))

\* C3 as amended. For every step after the first, the ring has as many entries before
\* its closing entry as the ring before it.
VertexCountPreserved ==
    \A i \in 2..Len(fire_spread) : Len(Ring(i)) - 1 = Len(Ring(i - 1)) - 1

\* two advances of a polygon that was supplied closed, or that repeats a vertex
VertexCountWitness ==
    /\ Truthy(config.initial_polygon)
    /\ DistinctPoints(config.initial_polygon.coords) < Len(config.initial_polygon.coords)
    /\ Len(fire_spread) >= 3
    /\ Len(Ring(3)) = Len(config.initial_polygon.coords) + 1

\* C4. Abort on weather failure: once fetch_hrrr_data has raised, no later stage runs,
\* no records exist or are returned, and the endpoint answers with exactly one error
\* carrying a status code and the message.
AbortOnWeatherFailure ==
    exc \in FetchErrors =>
        /\ stages = <<"fetch_hrrr_data">>
        /\ pc \in {"except", "done"}
        /\ ~hrrr_data.fetched
        /\ hysplit_data = <<>> /\ fire_spread = <<>> /\ simulation_data = <<>>
        /\ pc = "except" => responses = <<>>
        /\ pc = "done" =>
            /\ Len(responses) = 1
            /\ responses[1].kind = "error"
            /\ responses[1].status_code = 500
            /\ responses[1].detail = exc

\* the endpoint has answered a run whose weather fetch raised
AbortWitness == exc \in FetchErrors /\ pc = "done" /\ Len(responses) = 1

\* the number of steps the configuration asks for: duration / step size
ConfiguredSteps == (config.duration_hours * 60) \div config.time_step_minutes

\* C5. Step count: a successful run returns exactly N = duration_hours * 60 /
\* time_step_minutes records.
StepCount ==
    (pc = "done" /\ responses[1].kind = "ok") =>
        Len(responses[1].simulation_data) = ConfiguredSteps

\* C6. Degenerate input safety: without an initial polygon (None or empty) the
\* propagator runs every step; each ring is the single vertex of the ring before (at
\* first the start location) moved along that step's wind vector by that step's spread
\* distance, followed by its closing copy.
DegenerateInputSafety ==
    ~Truthy(config.initial_polygon) =>
        /\ "calculate_fire_spread" \in StagesEntered =>
               Len(fire_spread) = Len(hrrr_data.periods)
        /\ \A i \in 1..Len(fire_spread) :
            LET from == IF i = 1 THEN config.start_location ELSE Ring(i - 1)[1]
                sample == hrrr_data.periods[i]
                to == Displace(from, WindVector(sample.wind_direction),
                               SpreadDistance(sample.wind_speed, sample.humidity))
            IN  Ring(i) = <<to, to>>

\* three steps from the start location alone, the point having moved at each
DegenerateWitness ==
    /\ ~Truthy(config.initial_polygon)
    /\ Len(fire_spread) = 3
    /\ Ring(1)[1] # config.start_location
    /\ Ring(2)[1] # Ring(1)[1]
    /\ Ring(3)[1] # Ring(2)[1]

\* C7. Eastward scenario: the unit square advanced once under wind 10 m/s from bearing
\* 90 (east) at humidity 30 is closed, has 4 distinct vertices, and every vertex has
\* moved east (its x grew).
EastwardScenario ==
    (/\ config.initial_polygon.given
     /\ config.initial_polygon.coords = Square
     /\ Len(fire_spread) >= 2
     /\ hrrr_data.periods[2].wind_speed = 10
     /\ hrrr_data.periods[2].wind_direction = 90
     /\ hrrr_data.periods[2].humidity = 30) =>
        /\ Ring(2)[1] = Ring(2)[Len(Ring(2))]
        /\ Len(Ring(2)) = 5
        /\ DistinctPoints(Open(Ring(2))) = 4
        /\ \A j \in 1..4 : Ring(2)[j][1] > Ring(1)[j][1]

\* C8 as stated. Monotonicity: at every humidity in [0,100], the pre-clamp spread
\* distance is strictly greater at the greater of two wind speeds.
Monotonicity == probe.applied => probe.d1 < probe.d2

\* C8 as amended. At every humidity in [0,80), the pre-clamp spread distance is
\* strictly greater at the greater of two wind speeds.
MonotonicityBelow80 ==
    (probe.applied /\ probe.humidity < HumiditySpan + HumidityRef) => probe.d1 < probe.d2

\* the formula applied at two wind speeds at a humidity just below 80
MonotonicityWitness ==
    /\ probe.applied
    /\ probe.humidity = HumiditySpan + HumidityRef - 1
    /\ probe.s1 = 0 /\ probe.s2 = 1
    /\ probe.d1 < probe.d2

\* C9. Neighbour indexing excludes the closing duplicate: the vertices advanced at a
\* step, among which the neighbours are taken, never end with the closing copy of the
\* first of them, also when the initial polygon was supplied closed.
ClosingCopyNeverAdvanced ==
    \A i \in AdvancedSteps :
        Len(AdvancedFrom(i)) > 1 => AdvancedFrom(i)[Len(AdvancedFrom(i))] # AdvancedFrom(i)[1]

\* C10 as stated. Orchestration order: run_hysplit is never entered before
\* calculate_fire_spread has run.
HysplitAfterPropagation ==
    \A k \in 1..Len(stages) :
        stages[k] = "run_hysplit" => \E m \in 1..(k - 1) : stages[m] = "calculate_fire_spread"

\* the order in which run_simulation runs its stages
CodeOrder == <<"fetch_hrrr_data", "run_hysplit", "calculate_fire_spread", "zip">>

\* C10 as amended. In every run the stages occur in the order weather acquisition,
\* smoke-plume collaborator, perimeter propagation, zipping: calculate_fire_spread is
\* never entered before run_hysplit has run.
OrchestrationOrder ==
    /\ Len(stages) <= Len(CodeOrder)
    /\ stages = SubSeq(CodeOrder, 1, Len(stages))

\* a run that went through all four stages and answered
OrchestrationWitness == pc = "done" /\ Len(stages) = 4 /\ responses[1].kind = "ok"

====
